---------------------------- MODULE Spec2Model ----------------------------
(***************************************************************************)
(* mzsocket: a BSD socket wrapper over the C library (src/src/lib.rs, with *)
(* the split-out revision of its syscall adapter in src/src/safe.rs and of *)
(* its wire records in src/src/structs.rs).                                *)
(*                                                                         *)
(* Three specifications share this module:                                 *)
(*   Spec      the Socket handle lifecycle against an OS descriptor table  *)
(*   SpecWire  the wire records bind and connect build and submit          *)
(*   SpecAddr  the dotted-quad parser inet_addr                            *)
(***************************************************************************)
EXTENDS Integers, Sequences, FiniteSets, TLC

VARIABLES
    hs,        \* Socket handles: handle id -> [st, fd, closes]
    os,        \* the OS descriptor table: descriptor -> [open, flags, st, io]
    last,      \* the last operation performed and what it returned
    panicked,  \* a panic is unwinding the program
    host,      \* byte order of the host, "le" or "be"
    target,    \* the BindFamily value handed to bind / connect
    sent,      \* what bind / connect submitted to the OS
    addr,      \* the text handed to inet_addr
    parsed     \* what inet_addr produced

vars == <<hs, os, last, panicked, host, target, sent, addr, parsed>>

lifeVars == <<hs, os, last, panicked>>
wireVars == <<host, target, sent>>
addrVars == <<addr, parsed>>

(***************************************************************************)
(* Fixed-width integers.  TLC's integers are 32-bit signed, so a u32 is a  *)
(* record of two 16-bit limbs [hi, lo] and a u128 a sequence of eight      *)
(* 16-bit limbs, least-significant limb first.                             *)
(***************************************************************************)
TwoTo ==
    <<1, 2, 4, 8, 16, 32, 64, 128, 256, 512, 1024, 2048, 4096, 8192, 16384, 32768,
      65536, 131072, 262144, 524288, 1048576, 2097152, 4194304, 8388608, 16777216,
      33554432, 67108864, 134217728, 268435456, 536870912, 1073741824>>

\* 2^n, 0 <= n <= 30
Pow2(n) == TwoTo[n + 1]

Bit(x, j) == (x \div Pow2(j)) % 2

\* x | y on 16-bit limbs
Or16(x, y) ==
    LET RECURSIVE or(_)
        or(j) == IF j = 16 THEN 0
                 ELSE (IF Bit(x, j) = 1 \/ Bit(y, j) = 1 THEN Pow2(j) ELSE 0) + or(j + 1)
    IN or(0)

\* (b as u32): widening of a u8
U32Of(b) == [hi |-> 0, lo |-> b]

\* x << n on u32, 0 <= n < 32; bits shifted past bit 31 are lost
Shl32(x, n) ==
    IF n < 16
    THEN [hi |-> ((x.hi * Pow2(n)) + ((x.lo * Pow2(n)) \div 65536)) % 65536,
          lo |-> (x.lo * Pow2(n)) % 65536]
    ELSE [hi |-> (x.lo * Pow2(n - 16)) % 65536, lo |-> 0]

\* x | y on u32
Or32(x, y) == [hi |-> Or16(x.hi, y.hi), lo |-> Or16(x.lo, y.lo)]

(***************************************************************************)
(* The dotted-quad parser.  Text is a sequence of one-character strings.   *)
(***************************************************************************)
Digits == <<"0", "1", "2", "3", "4", "5", "6", "7", "8", "9">>

IsDigit(c) == \E i \in 1..10 : Digits[i] = c

DigitVal(c) == (CHOOSE i \in 1..10 : Digits[i] = c) - 1

\* addr.split('.'): the segments between the dots; a text without a dot is
\* one segment, and an empty text is one empty segment.
split(s) ==
    LET RECURSIVE sp(_, _, _)
        sp(i, cur, acc) ==
            IF i > Len(s) THEN Append(acc, cur)
            ELSE IF s[i] = "." THEN sp(i + 1, <<>>, Append(acc, cur))
            ELSE sp(i + 1, Append(cur, s[i]), acc)
    IN sp(1, <<>>, <<>>)

\* z.parse::<u8>(): an optional leading '+', then one or more decimal digits,
\* the value checked against u8::MAX after every digit.
parse_u8(z) ==
    LET digits == IF Len(z) > 0 /\ z[1] = "+" THEN Tail(z) ELSE z
        RECURSIVE acc(_, _)
        acc(i, v) ==
            IF i > Len(digits) THEN [ok |-> TRUE, val |-> v]
            ELSE IF ~IsDigit(digits[i]) THEN [ok |-> FALSE, val |-> 0]
            ELSE IF v * 10 + DigitVal(digits[i]) > 255 THEN [ok |-> FALSE, val |-> 0]
            ELSE acc(i + 1, v * 10 + DigitVal(digits[i]))
    IN IF Len(z) = 0 \/ Len(digits) = 0 THEN [ok |-> FALSE, val |-> 0]
       ELSE acc(1, 0)

\* The shift each of the four k.next() results gets, in evaluation order.
QuadShift(i) == 8 * (3 - i)

\* A variant of inet_addr that parses every segment before combining the
\* first four (an eager collect in place of the lazy map).
inet_addr_eager(a) ==
    LET segs == split(a)
        bad == {i \in 1..Len(segs) : ~parse_u8(segs[i]).ok}
    IN IF bad # {}
       THEN [kind |-> "panic", why |-> "parse", at |-> (CHOOSE i \in bad : \A j \in bad : i <= j) - 1,
             val |-> U32Of(0)]
       ELSE IF Len(segs) < 4
       THEN [kind |-> "panic", why |-> "none", at |-> Len(segs), val |-> U32Of(0)]
       ELSE [kind |-> "ok", why |-> "", at |-> 4,
             val |-> Or32(Or32(Or32(Shl32(U32Of(parse_u8(segs[1]).val), 24),
                                    Shl32(U32Of(parse_u8(segs[2]).val), 16)),
                               Shl32(U32Of(parse_u8(segs[3]).val), 8)),
                          U32Of(parse_u8(segs[4]).val))]

\* inet_addr: the map over the split is lazy, so each of the four k.next()
\* calls parses one segment, left to right.  k.next() past the last segment
\* is None and its unwrap panics; a segment that fails to parse panics in
\* the closure's unwrap.  Segments after the fourth are never parsed.
inet_addr(a) ==
    LET segs == split(a)
        RECURSIVE quad(_, _)
        quad(i, acc) ==
            IF i = 4 THEN [kind |-> "ok", why |-> "", at |-> 4, val |-> acc]
            ELSE IF i >= Len(segs)
            THEN [kind |-> "panic", why |-> "none", at |-> i, val |-> U32Of(0)]
            ELSE IF ~parse_u8(segs[i + 1]).ok
            THEN [kind |-> "panic", why |-> "parse", at |-> i, val |-> U32Of(0)]
            ELSE quad(i + 1, Or32(acc, Shl32(U32Of(parse_u8(segs[i + 1]).val), QuadShift(i))))
    IN quad(0, U32Of(0))

\* Inputs of SpecAddr: up to MaxSegs segments, each one of SegSamples,
\* joined by dots.
MaxSegs == 5

SegSamples ==
    { <<"1", "2", "7">>, <<"6", "4">>, <<"2", "5", "5">>, <<"2", "5", "6">>,
      <<"j">>, <<"+", "8">>, <<>> }

Join(ss) ==
    LET RECURSIVE jn(_)
        jn(i) == IF i > Len(ss) THEN <<>>
                 ELSE IF i = 1 THEN ss[1] \o jn(2)
                 ELSE <<".">> \o ss[i] \o jn(i + 1)
    IN jn(1)

AddrInputs == { Join(ss) : ss \in UNION { [1..n -> SegSamples] : n \in 1..MaxSegs } }

NotParsed == [kind |-> "idle", why |-> "", at |-> 0, val |-> U32Of(0)]

(***************************************************************************)
(* Wire records.  A record is modelled by its memory image, a sequence of  *)
(* bytes laid out as #[repr(C)] lays the fields out; multi-byte fields are *)
(* stored in the byte order of the host.                                   *)
(***************************************************************************)
UNIX_PATH_LEN == 108

AF_UNIX == 1
AF_INET == 2
AF_INET6 == 10

\* size_of::<InetSockAddr>(), size_of::<Inet6SockAddr>(), size_of::<UnixSockAddr>()
SizeOfInetSockAddr == 2 + 2 + 4 + 8
SizeOfInet6SockAddr == 2 + 2 + 4 + 16 + 4
SizeOfUnixSockAddr == 2 + UNIX_PATH_LEN

Zeros(n) == [i \in 1..n |-> 0]

\* the bytes a u16 / u32 occupies in memory on this host
NeBytes16(v) ==
    IF host = "le" THEN <<v % 256, v \div 256>> ELSE <<v \div 256, v % 256>>

NeBytes32(x) ==
    IF host = "le" THEN NeBytes16(x.lo) \o NeBytes16(x.hi)
    ELSE NeBytes16(x.hi) \o NeBytes16(x.lo)

Swap16(v) == ((v % 256) * 256) + (v \div 256)

\* A variant of htons that leaves the value in host order.
htons_host_order(val) == val

\* htons / htonl of the C library: a byte swap on a little-endian host, the
\* identity on a big-endian one.
htons(val) == IF host = "le" THEN Swap16(val) ELSE val

htonl(val) ==
    IF host = "le" THEN [hi |-> Swap16(val.lo), lo |-> Swap16(val.hi)] ELSE val

\* ((ipaddr >> n) & 0xFF) as u8 on a u128 held as eight 16-bit limbs
Limb(x, i) == IF i \in 1..Len(x) THEN x[i] ELSE 0

Shr128(x, n) ==
    [i \in 1..8 |->
        (Limb(x, i + (n \div 16)) \div Pow2(n % 16))
        + (Limb(x, i + (n \div 16) + 1) % Pow2(n % 16)) * Pow2(16 - (n % 16))]

ShrByte(ipaddr, n) == Shr128(ipaddr, n)[1] % 256

\* The 16-byte array both bind_inet6 and safe_connect build.
Inet6Bytes(ipaddr) == [i \in 1..16 |-> ShrByte(ipaddr, 120 - 8 * (i - 1))]

\* The memory images of the three records.
InetSockAddr(family, port, a, reserved) ==
    NeBytes16(family) \o NeBytes16(port) \o NeBytes32(a) \o Zeros(8)

Inet6SockAddr(family, port, flowinfo, a, scopeid) ==
    NeBytes16(family) \o NeBytes16(port) \o NeBytes32(flowinfo) \o a \o NeBytes32(scopeid)

UnixSockAddr(family, path) == NeBytes16(family) \o path

Submit(call, mem, slen) == [call |-> call, panic |-> FALSE, mem |-> mem, slen |-> slen]

Panic(call) == [call |-> call, panic |-> TRUE, mem |-> <<>>, slen |-> 0]

NotSent == [call |-> "none", panic |-> FALSE, mem |-> <<>>, slen |-> 0]

\* Iterator::nth(n) on path.bytes() with pos bytes already consumed: skips n
\* bytes and yields the next one, consuming n + 1; None past the end.
nth(path, pos, n) ==
    IF pos + n < Len(path)
    THEN [some |-> TRUE, val |-> path[pos + n + 1], pos |-> pos + n + 1]
    ELSE [some |-> FALSE, val |-> 0, pos |-> Len(path)]

\* Iterator::next()
next(path, pos) == nth(path, pos, 0)

\* One pass of the loop body `stpath[i] = bytes.<take>.unwrap()`, where b is
\* what the iterator gave: the unwrap of None panics.  got holds the bytes
\* stored so far, got[i + 1] being stpath[i].
Store(st, b) ==
    IF st.panic THEN st
    ELSE IF ~b.some THEN [panic |-> TRUE, pos |-> b.pos, got |-> st.got]
    ELSE [panic |-> FALSE, pos |-> b.pos, got |-> Append(st.got, b.val)]

\* let mut stpath = [0u8; 108]; ... the loop's stores ...; stpath[size] = 0;
Stpath(got, size) ==
    [i \in 1..108 |-> IF i = size + 1 THEN 0 ELSE IF i <= Len(got) THEN got[i] ELSE 0]

\* for i in 0..size { stpath[i] = bytes.nth(i).unwrap(); }  stpath[size] = 0;
\* (the passes lo .. hi-1 are run in order, first half before second, which
\* keeps the evaluation shallow; once a pass has panicked no other runs)
FillNth(path, size) ==
    LET RECURSIVE loop(_, _, _)
        loop(st, lo, hi) ==
            IF lo >= hi THEN st
            ELSE IF hi = lo + 1 THEN Store(st, nth(path, st.pos, lo))
            ELSE LET first == loop(st, lo, (lo + hi) \div 2)
                 IN IF first.panic THEN first ELSE loop(first, (lo + hi) \div 2, hi)
        done == loop([panic |-> FALSE, pos |-> 0, got |-> <<>>], 0, size)
    IN [panic |-> done.panic, buf |-> Stpath(done.got, size)]

\* for i in 0..size { stpath[i] = bytes.next().unwrap(); }  stpath[size] = 0;
FillNext(path, size) ==
    LET RECURSIVE loop(_, _, _)
        loop(st, lo, hi) ==
            IF lo >= hi THEN st
            ELSE IF hi = lo + 1 THEN Store(st, next(path, st.pos))
            ELSE LET first == loop(st, lo, (lo + hi) \div 2)
                 IN IF first.panic THEN first ELSE loop(first, (lo + hi) \div 2, hi)
        done == loop([panic |-> FALSE, pos |-> 0, got |-> <<>>], 0, size)
    IN [panic |-> done.panic, buf |-> Stpath(done.got, size)]

bind_inet(ipaddr, port) ==
    Submit("bind", InetSockAddr(AF_INET, htons(port), htonl(ipaddr), 0), SizeOfInetSockAddr)

bind_inet6(ipaddr, port) ==
    Submit("bind", Inet6SockAddr(AF_INET6, htons(port), U32Of(0), Inet6Bytes(ipaddr), U32Of(0)),
           SizeOfInet6SockAddr)

\* lib.rs
bind_unix(path) ==
    LET size == IF Len(path) < UNIX_PATH_LEN - 1 THEN Len(path) ELSE UNIX_PATH_LEN - 1
        st == FillNth(path, size)
    IN IF st.panic THEN Panic("bind")
       ELSE Submit("bind", UnixSockAddr(AF_UNIX, st.buf), SizeOfUnixSockAddr)

\* safe.rs
bind_unix_safe_rs(path) ==
    LET size == IF Len(path) < UNIX_PATH_LEN - 1 THEN Len(path) ELSE UNIX_PATH_LEN - 1
        st == FillNext(path, size)
    IN IF st.panic THEN Panic("bind")
       ELSE Submit("bind", UnixSockAddr(AF_UNIX, st.buf), SizeOfUnixSockAddr)

safe_bind(bf) ==
    CASE bf.tag = "Inet" -> bind_inet(bf.a4, bf.port)
      [] bf.tag = "Inet6" -> bind_inet6(bf.a6, bf.port)
      [] bf.tag = "Unix" -> bind_unix(bf.path)

safe_bind_safe_rs(bf) ==
    CASE bf.tag = "Inet" -> bind_inet(bf.a4, bf.port)
      [] bf.tag = "Inet6" -> bind_inet6(bf.a6, bf.port)
      [] bf.tag = "Unix" -> bind_unix_safe_rs(bf.path)

safe_connect(bf) ==
    CASE bf.tag = "Inet" ->
            Submit("connect", InetSockAddr(AF_INET, htons(bf.port), htonl(bf.a4), 0),
                   SizeOfInetSockAddr)
      [] bf.tag = "Inet6" ->
            Submit("connect",
                   Inet6SockAddr(AF_INET6, htons(bf.port), U32Of(0), Inet6Bytes(bf.a6), U32Of(0)),
                   SizeOfInet6SockAddr)
      [] bf.tag = "Unix" ->
            LET size == IF Len(bf.path) <= 107 THEN Len(bf.path) ELSE 107
                st == FillNth(bf.path, size)
            IN IF st.panic THEN Panic("connect")
               ELSE Submit("connect", UnixSockAddr(AF_UNIX, st.buf), SizeOfUnixSockAddr)

\* BindFamily values
Inet(a, port) == [tag |-> "Inet", a4 |-> a, a6 |-> <<>>, port |-> port, path |-> <<>>]

Inet6(a, port) == [tag |-> "Inet6", a4 |-> U32Of(0), a6 |-> a, port |-> port, path |-> <<>>]

Unix(path) == [tag |-> "Unix", a4 |-> U32Of(0), a6 |-> <<>>, port |-> 0, path |-> path]

NoTarget == [tag |-> "none", a4 |-> U32Of(0), a6 |-> <<>>, port |-> 0, path |-> <<>>]

\* Inputs of SpecWire.
MaxPathLen == 110

LimbSamples == {0, 1, 255, 4660, 43981, 65535}

PortSamples == {0, 80, 8080, 65535}

U32Samples == { [hi |-> h, lo |-> l] : h, l \in LimbSamples }

U128Samples ==
    { [i \in 1..8 |-> (a * i + b * (9 - i) * 257) % 65536] : a, b \in LimbSamples }

PathOf(n) == [i \in 1..n |-> 1 + ((i * 37) % 255)]

WireTargets ==
    { Inet(a, p) : a \in U32Samples, p \in PortSamples }
    \cup { Inet6(a, p) : a \in U128Samples, p \in PortSamples }
    \cup { Unix(PathOf(n)) : n \in 0..MaxPathLen }

(***************************************************************************)
(* c_int arithmetic: 32-bit two's complement, bit 31 the sign.             *)
(***************************************************************************)
CBit(x, j) == IF j = 31 THEN (IF x < 0 THEN 1 ELSE 0) ELSE (x \div Pow2(j)) % 2

\* the c_int with bits b[0] .. b[31]
CInt(b) ==
    LET RECURSIVE low(_)
        low(j) == IF j = 31 THEN 0 ELSE (b[j] * Pow2(j)) + low(j + 1)
    IN low(0) + (IF b[31] = 1 THEN (-2147483647) - 1 ELSE 0)

\* x & y, x | y, !x on c_int
CAnd(x, y) == CInt([j \in 0..31 |-> IF CBit(x, j) = 1 /\ CBit(y, j) = 1 THEN 1 ELSE 0])

COr(x, y) == CInt([j \in 0..31 |-> IF CBit(x, j) = 1 \/ CBit(y, j) = 1 THEN 1 ELSE 0])

CNot(x) == CInt([j \in 0..31 |-> 1 - CBit(x, j)])

(***************************************************************************)
(* The OS side: a table of descriptors.  socket() and accept() hand out    *)
(* the lowest free descriptor number, so a number is reused after close.   *)
(* The fields blk (the argument of the last setblocking call that reached  *)
(* the descriptor) and f0 (its flag word when it was opened) are history.  *)
(***************************************************************************)
NumFds == 2
MaxHandles == 2

Fds == 0..(NumFds - 1)
Handles == 1..MaxHandles

O_NONBLOCK == 2048

\* The status flags F_SETFL can change (O_APPEND, O_NONBLOCK, O_ASYNC,
\* O_DIRECT, O_NOATIME); the access mode and the rest stay as they are.
SettableFlags == 1024 + O_NONBLOCK + 8192 + 16384 + 262144

\* A descriptor slot that is not open.
FreeDesc == [open |-> FALSE, flags |-> 0, st |-> "free", blk |-> "none", f0 |-> 0]

\* A descriptor fresh from socket() or accept(): flag word O_RDWR.
NewDesc(st) == [open |-> TRUE, flags |-> 2, st |-> st, blk |-> "none", f0 |-> 2]

IsOpen(t, fd) == fd \in Fds /\ t[fd].open

HasFree(t) == \E d \in Fds : ~t[d].open

LowestFree(t) == CHOOSE d \in Fds : ~t[d].open /\ \A e \in Fds : ~t[e].open => d <= e

\* What the program can observe or change of a descriptor (no history).
Real(t) == [d \in Fds |-> [open |-> t[d].open, flags |-> t[d].flags, st |-> t[d].st]]

\* Each OS call gives [ret, os]; `good` is the OS's choice between success
\* and failure where the call can succeed.
os_socket(t, good) ==
    IF good /\ HasFree(t)
    THEN [ret |-> LowestFree(t), os |-> [t EXCEPT ![LowestFree(t)] = NewDesc("created")]]
    ELSE [ret |-> -1, os |-> t]

os_bind(t, fd, good) ==
    IF good /\ IsOpen(t, fd) /\ t[fd].st = "created"
    THEN [ret |-> 0, os |-> [t EXCEPT ![fd].st = "bound"]]
    ELSE [ret |-> -1, os |-> t]

os_connect(t, fd, good) ==
    IF good /\ IsOpen(t, fd) /\ t[fd].st \in {"created", "bound"}
    THEN [ret |-> 0, os |-> [t EXCEPT ![fd].st = "connected"]]
    ELSE [ret |-> -1, os |-> t]

os_listen(t, fd, good) ==
    IF good /\ IsOpen(t, fd) /\ t[fd].st \in {"bound", "listening"}
    THEN [ret |-> 0, os |-> [t EXCEPT ![fd].st = "listening"]]
    ELSE [ret |-> -1, os |-> t]

\* accept: on success the new descriptor and, in the in/out length word, the
\* length peerlen of the peer's address; on failure -1 and the word as it
\* was (peerlen = 0: the OS has no connection to hand out).
os_accept(t, fd, slen, peerlen) ==
    IF peerlen # 0 /\ IsOpen(t, fd) /\ t[fd].st = "listening" /\ HasFree(t)
    THEN [ret |-> LowestFree(t), slen |-> peerlen,
          os |-> [t EXCEPT ![LowestFree(t)] = NewDesc("connected")]]
    ELSE [ret |-> -1, slen |-> slen, os |-> t]

\* read / write on a connected descriptor moves n bytes (n the OS's choice,
\* up to the buffer's length); the bytes are the peer's, not the table's.
os_io(t, fd, n) ==
    IF IsOpen(t, fd) /\ t[fd].st = "connected"
    THEN [ret |-> n, os |-> t]
    ELSE [ret |-> -1, os |-> t]

os_getfl(t, fd) == IF IsOpen(t, fd) THEN t[fd].flags ELSE -1

os_setfl(t, fd, val) ==
    IF IsOpen(t, fd)
    THEN [t EXCEPT ![fd].flags = COr(CAnd(val, SettableFlags),
                                      CAnd(t[fd].flags, CNot(SettableFlags)))]
    ELSE t

os_close(t, fd) == IF IsOpen(t, fd) THEN [t EXCEPT ![fd] = FreeDesc] ELSE t

\* The lengths the OS may leave in the length word: an unnamed Unix peer,
\* an IPv4 peer, an IPv6 peer, a Unix peer with a 107-byte path.
PeerLens == {2, SizeOfInetSockAddr, SizeOfInet6SockAddr, SizeOfUnixSockAddr}

(***************************************************************************)
(* The Socket handle.  hs[h].closes counts the OS close calls issued       *)
(* through handle h (history: 0, 1, and 2 for twice or more); the handle   *)
(* itself holds only fd.                                                   *)
(***************************************************************************)
OneMore(closes) == IF closes < 2 THEN closes + 1 ELSE 2

\* The byte counts a read or write may move: none, or some.
IoCounts == {0, 1}

NoHandle == [st |-> "none", fd |-> -1, closes |-> 0]

HasFreeHandle == \E h \in Handles : hs[h].st = "none"

FreeHandle == CHOOSE h \in Handles : hs[h].st = "none" /\ \A g \in Handles : hs[g].st = "none" => h <= g

Live(h) == hs[h].st = "live"

\* close() has been called on the handle
Stale(h) == hs[h].closes > 0

\* The record of the last operation.  ret is the raw OS return value, rec
\* and slen0 the record and the length word an accept handed the OS, slen
\* the length word after it, made whether the operation created a handle, stale whether close()
\* had been called on the handle before, effect whether the operation
\* changed the descriptor table to t.
Op(op, h, kind, val, t) ==
    [op |-> op, kind |-> kind, val |-> val, ret |-> val, rec |-> <<>>, slen0 |-> 0, slen |-> 0,
     made |-> FALSE, stale |-> (h \in Handles /\ Stale(h)), effect |-> (Real(t) # Real(os))]

NoOp == [op |-> "none", kind |-> "unit", val |-> 0, ret |-> 0, rec |-> <<>>, slen0 |-> 0, slen |-> 0,
         made |-> FALSE, stale |-> FALSE, effect |-> FALSE]

\* if ws < 0 { Err(ws) } else { Ok(Self { fd: ws }) }
new_result(ws) == IF ws < 0 THEN [kind |-> "err", val |-> ws] ELSE [kind |-> "ok", val |-> ws]

\* if r < 0 { Err(r) } else { Ok(()) }
unit_result(r) == IF r < 0 THEN [kind |-> "err", val |-> r] ELSE [kind |-> "ok", val |-> 0]

\* if ret < 0 { Err(ret) } else { Ok(ret) }
io_result(ret) == IF ret < 0 THEN [kind |-> "err", val |-> ret] ELSE [kind |-> "ok", val |-> ret]

\* A variant of the accept check that looks at the sign of the return value.
accept_result_by_sign(ret, slen, size) ==
    IF ret < 0 THEN [kind |-> "err", val |-> ret] ELSE [kind |-> "ok", val |-> ret]

\* if slen as usize != size_of::<T>() { Err(ret as i32) } else { Ok((Self {fd: ret as i32}, isaddr)) }
\* (ret went c_int -> usize -> i32, which gives the c_int back)
accept_result(ret, slen, size) ==
    IF slen # size THEN [kind |-> "err", val |-> ret] ELSE [kind |-> "ok", val |-> ret]

\* A variant of the flag computation with the two branches exchanged.
new_flags_swapped(flags, block) ==
    IF block THEN COr(flags, O_NONBLOCK) ELSE CAnd(flags, CNot(O_NONBLOCK))

\* if block { flags & !O_NONBLOCK } else { flags | O_NONBLOCK }
new_flags(flags, block) ==
    IF block THEN CAnd(flags, CNot(O_NONBLOCK)) ELSE COr(flags, O_NONBLOCK)

\* The targets bind and connect are given in the lifecycle.
LifeTargets == { Inet([hi |-> 32512, lo |-> 1], 8080), Unix(PathOf(2)) }

\* The record size each accept variant compares the length word with.
AcceptSize(fam) ==
    CASE fam = "inet" -> SizeOfInetSockAddr
      [] fam = "inet6" -> SizeOfInet6SockAddr
      [] fam = "unix" -> SizeOfUnixSockAddr

AcceptOps == {"acceptinet", "acceptinet6", "acceptunix"}

\* InetSockAddr::default(), Inet6SockAddr::default(), UnixSockAddr::default()
InetSockAddr_default == InetSockAddr(AF_INET, 0, U32Of(0), 0)

Inet6SockAddr_default == Inet6SockAddr(AF_INET6, 0, U32Of(0), Zeros(16), U32Of(0))

UnixSockAddr_default == UnixSockAddr(AF_UNIX, Zeros(UNIX_PATH_LEN))

\* let mut isaddr = T::default(): the record each accept variant hands over.
AcceptRecord(fam) ==
    CASE fam = "inet" -> InetSockAddr_default
      [] fam = "inet6" -> Inet6SockAddr_default
      [] fam = "unix" -> UnixSockAddr_default

\* A variant of the initial length word: the size of the variant's record.
accept_slen_size_of(fam) == AcceptSize(fam)

\* let mut slen = 0u32: the length word as each accept variant sets it
\* before the call.
accept_slen(fam) == 0

Socket_new(good) ==
    /\ ~panicked
    /\ HasFreeHandle
    /\ LET r == os_socket(os, good)
           res == new_result(r.ret)
       IN /\ os' = r.os
          /\ hs' = IF res.kind = "ok"
                   THEN [hs EXCEPT ![FreeHandle] = [st |-> "live", fd |-> res.val, closes |-> 0]]
                   ELSE hs
          /\ last' = [Op("new", 0, res.kind, res.val, r.os) EXCEPT
                        !.made = (res.kind = "ok")]
    /\ UNCHANGED <<panicked, wireVars, addrVars>>

Socket_bind(h, bf, good) ==
    /\ ~panicked
    /\ Live(h)
    /\ LET rec == safe_bind(bf)
           r == os_bind(os, hs[h].fd, good)
           res == unit_result(r.ret)
       IN IF rec.panic
          THEN /\ panicked' = TRUE
               /\ last' = Op("bind", h, "panic", 0, os)
               /\ UNCHANGED os
          ELSE /\ os' = r.os
               /\ last' = Op("bind", h, res.kind, res.val, r.os)
               /\ UNCHANGED panicked
    /\ UNCHANGED <<hs, wireVars, addrVars>>

Socket_connect(h, bf, good) ==
    /\ ~panicked
    /\ Live(h)
    /\ LET rec == safe_connect(bf)
           r == os_connect(os, hs[h].fd, good)
           res == unit_result(r.ret)
       IN IF rec.panic
          THEN /\ panicked' = TRUE
               /\ last' = Op("connect", h, "panic", 0, os)
               /\ UNCHANGED os
          ELSE /\ os' = r.os
               /\ last' = Op("connect", h, res.kind, res.val, r.os)
               /\ UNCHANGED panicked
    /\ UNCHANGED <<hs, wireVars, addrVars>>

Socket_listen(h, good) ==
    /\ ~panicked
    /\ Live(h)
    /\ LET r == os_listen(os, hs[h].fd, good)
       IN /\ os' = r.os
          /\ last' = Op("listen", h, "raw", r.ret, r.os)
    /\ UNCHANGED <<hs, panicked, wireVars, addrVars>>

\* acceptinet, acceptinet6 and acceptunix differ in the record and its size.
Socket_accept(h, fam, peerlen) ==
    /\ ~panicked
    /\ Live(h)
    /\ LET slen0 == accept_slen(fam)
           r == os_accept(os, hs[h].fd, slen0, peerlen)
           res == accept_result(r.ret, r.slen, AcceptSize(fam))
       IN /\ res.kind = "ok" => HasFreeHandle
          /\ os' = r.os
          /\ hs' = IF res.kind = "ok"
                   THEN [hs EXCEPT ![FreeHandle] = [st |-> "live", fd |-> res.val, closes |-> 0]]
                   ELSE hs
          /\ last' = [Op("accept" \o fam, h, res.kind, res.val, r.os) EXCEPT
                        !.ret = r.ret, !.rec = AcceptRecord(fam),
                        !.slen0 = slen0, !.slen = r.slen,
                        !.made = (res.kind = "ok")]
    /\ UNCHANGED <<panicked, wireVars, addrVars>>

Socket_read(h, n) ==
    /\ ~panicked
    /\ Live(h)
    /\ LET r == os_io(os, hs[h].fd, n)
           res == io_result(r.ret)
       IN /\ os' = r.os
          /\ last' = Op("read", h, res.kind, res.val, r.os)
    /\ UNCHANGED <<hs, panicked, wireVars, addrVars>>

Socket_write(h, n) ==
    /\ ~panicked
    /\ Live(h)
    /\ LET r == os_io(os, hs[h].fd, n)
           res == io_result(r.ret)
       IN /\ os' = r.os
          /\ last' = Op("write", h, res.kind, res.val, r.os)
    /\ UNCHANGED <<hs, panicked, wireVars, addrVars>>

\* setblocking: F_GETFL, set or clear O_NONBLOCK, F_SETFL; both results ignored.
setblocking(name, h, block) ==
    /\ ~panicked
    /\ Live(h)
    /\ LET fd == hs[h].fd
           flags == new_flags(os_getfl(os, fd), block)
           t == os_setfl(os, fd, flags)
           t2 == IF IsOpen(os, fd)
                 THEN [t EXCEPT ![fd].blk = IF block THEN "block" ELSE "nonblock"]
                 ELSE t
       IN /\ os' = t2
          /\ last' = Op(name, h, "unit", 0, t2)
    /\ UNCHANGED <<hs, panicked, wireVars, addrVars>>

Socket_setblocking(h, block) == setblocking("setblocking", h, block)

Socket_block(h) == setblocking("block", h, TRUE)

Socket_nonblock(h) == setblocking("nonblock", h, FALSE)

\* close(): safe_close(self.fd), whatever was done to the handle before.
safe_close(h) == os_close(os, hs[h].fd)

Socket_close(h) ==
    /\ ~panicked
    /\ Live(h)
    /\ os' = safe_close(h)
    /\ hs' = [hs EXCEPT ![h].closes = OneMore(@)]
    /\ last' = Op("close", h, "unit", 0, safe_close(h))
    /\ UNCHANGED <<panicked, wireVars, addrVars>>

\* Drop for Socket: self.close().  A panic unwinds through the handles in
\* scope, so drops go on after one.
Socket_drop(h) ==
    /\ Live(h)
    /\ os' = safe_close(h)
    /\ hs' = [hs EXCEPT ![h] = [st |-> "dropped", fd |-> -1, closes |-> OneMore(@.closes)]]
    /\ last' = Op("drop", h, "unit", 0, safe_close(h))
    /\ UNCHANGED <<panicked, wireVars, addrVars>>

Init ==
    /\ hs = [h \in Handles |-> NoHandle]
    /\ os = [d \in Fds |-> FreeDesc]
    /\ last = NoOp
    /\ panicked = FALSE
    /\ host = "le"
    /\ target = NoTarget
    /\ sent = NotSent
    /\ addr = <<>>
    /\ parsed = NotParsed

Next ==
    \/ \E good \in BOOLEAN : Socket_new(good)
    \/ \E h \in Handles, bf \in LifeTargets, good \in BOOLEAN : Socket_bind(h, bf, good)
    \/ \E h \in Handles, bf \in LifeTargets, good \in BOOLEAN : Socket_connect(h, bf, good)
    \/ \E h \in Handles, good \in BOOLEAN : Socket_listen(h, good)
    \/ \E h \in Handles, fam \in {"inet", "inet6", "unix"}, peerlen \in PeerLens \cup {0} :
          Socket_accept(h, fam, peerlen)
    \/ \E h \in Handles, n \in IoCounts : Socket_read(h, n)
    \/ \E h \in Handles, n \in IoCounts : Socket_write(h, n)
    \/ \E h \in Handles, block \in BOOLEAN : Socket_setblocking(h, block)
    \/ \E h \in Handles : Socket_block(h)
    \/ \E h \in Handles : Socket_nonblock(h)
    \/ \E h \in Handles : Socket_close(h)
    \/ \E h \in Handles : Socket_drop(h)

Spec == Init /\ [][Next]_vars

(***************************************************************************)
(* SpecWire: the syscall adapter builds the record for a target and        *)
(* submits it; sent is what the OS call was handed.                        *)
(***************************************************************************)
Adapter_bind ==
    /\ sent.call = "none"
    /\ sent' = safe_bind(target)
    /\ UNCHANGED <<lifeVars, host, target, addrVars>>

Adapter_connect ==
    /\ sent.call = "none"
    /\ sent' = safe_connect(target)
    /\ UNCHANGED <<lifeVars, host, target, addrVars>>

Adapter_bind_safe_rs ==
    /\ sent.call = "none"
    /\ sent' = [safe_bind_safe_rs(target) EXCEPT !.call = "bind(safe.rs)"]
    /\ UNCHANGED <<lifeVars, host, target, addrVars>>

InitWire ==
    /\ hs = [h \in Handles |-> NoHandle]
    /\ os = [d \in Fds |-> FreeDesc]
    /\ last = NoOp
    /\ panicked = FALSE
    /\ host \in {"le", "be"}
    /\ target \in WireTargets
    /\ sent = NotSent
    /\ addr = <<>>
    /\ parsed = NotParsed

NextWire == Adapter_bind \/ Adapter_connect \/ Adapter_bind_safe_rs

SpecWire == InitWire /\ [][NextWire]_vars

(***************************************************************************)
(* SpecAddr: inet_addr applied to a text.                                  *)
(***************************************************************************)
Parse ==
    /\ parsed.kind = "idle"
    /\ parsed' = inet_addr(addr)
    /\ UNCHANGED <<lifeVars, wireVars, addr>>

InitAddr ==
    /\ hs = [h \in Handles |-> NoHandle]
    /\ os = [d \in Fds |-> FreeDesc]
    /\ last = NoOp
    /\ panicked = FALSE
    /\ host = "le"
    /\ target = NoTarget
    /\ sent = NotSent
    /\ addr \in AddrInputs
    /\ parsed = NotParsed

NextAddr == Parse

SpecAddr == InitAddr /\ [][NextAddr]_vars

(***************************************************************************)
(* Properties of the wire records (SpecWire).                              *)
(***************************************************************************)
Min(a, b) == IF a < b THEN a ELSE b

\* The path buffer of a submitted Unix record: the 108 bytes after family.
PathBuf(mem) == SubSeq(mem, 3, 2 + UNIX_PATH_LEN)

\* The buffer a path should give: its first 107 bytes at most, then NULs.
RefPathBuf(path) == [i \in 1..108 |-> IF i <= Min(Len(path), 107) THEN path[i] ELSE 0]

\* C6: for every Unix target, in bind and in connect, the construction
\* completes and the 108-byte path buffer holds the path's first
\* min(n, 107) bytes in order, followed by NULs up to byte 107.
C6_UnixPathBuffer ==
    (sent.call \in {"bind", "connect"} /\ target.tag = "Unix")
        => /\ ~sent.panic
           /\ Len(sent.mem) = 110
           /\ PathBuf(sent.mem) = RefPathBuf(target.path)

\* The u16 that two bytes of memory hold on this host.
HostU16(b0, b1) == IF host = "le" THEN b0 + (256 * b1) ELSE (256 * b0) + b1

\* Bit j of a 128-bit value, and its bits 8*k+7 .. 8*k as a byte.
Bit128(x, j) == Bit(x[(j \div 16) + 1], j % 16)

BitsByte(x, k) ==
    LET RECURSIVE sum(_)
        sum(b) == IF b = 8 THEN 0 ELSE (Bit128(x, (8 * k) + b) * Pow2(b)) + sum(b + 1)
    IN sum(0)

\* The reference encodings: port and IPv4 address most-significant byte
\* first, IPv6 address byte i from bits 8*(15-i)+7 .. 8*(15-i).
RefPort(port) == <<port \div 256, port % 256>>

RefInet(bf) ==
    RefPort(bf.port)
    \o <<bf.a4.hi \div 256, bf.a4.hi % 256, bf.a4.lo \div 256, bf.a4.lo % 256>>
    \o <<0, 0, 0, 0, 0, 0, 0, 0>>

RefInet6(bf) ==
    RefPort(bf.port) \o <<0, 0, 0, 0>> \o [i \in 1..16 |-> BitsByte(bf.a6, 15 - (i - 1))]
    \o <<0, 0, 0, 0>>

\* C8: for every IPv4 and IPv6 target, the record bind and connect submit
\* has family 2 or 10, the port and the IPv4 address in network order, IPv6
\* address byte i equal to bits 8*(15-i)+7 .. 8*(15-i) of the value, zero
\* reserved, flow-info and scope-id fields, and declared size 16 or 28.
C8_InetRecords ==
    /\ (sent.call # "none" /\ target.tag = "Inet")
          => /\ ~sent.panic
             /\ sent.slen = 16
             /\ Len(sent.mem) = 16
             /\ HostU16(sent.mem[1], sent.mem[2]) = 2
             /\ SubSeq(sent.mem, 3, 16) = RefInet(target)
    /\ (sent.call # "none" /\ target.tag = "Inet6")
          => /\ ~sent.panic
             /\ sent.slen = 28
             /\ Len(sent.mem) = 28
             /\ HostU16(sent.mem[1], sent.mem[2]) = 10
             /\ SubSeq(sent.mem, 3, 28) = RefInet6(target)

\* C8's case: connect has submitted, on a little-endian host, the record of
\* an IPv6 target whose address bytes and port bytes are not all alike.
C8_Witness ==
    /\ sent.call = "connect"
    /\ host = "le"
    /\ target.tag = "Inet6"
    /\ target.port = 8080
    /\ sent.mem[9] # sent.mem[10]
    /\ sent.mem[9] # sent.mem[24]

(***************************************************************************)
(* Properties of inet_addr (SpecAddr).                                     *)
(***************************************************************************)
\* A segment that is an unsigned decimal integer in 0..255, and its value.
Decimal(z) ==
    LET RECURSIVE v(_)
        v(i) == IF i = 0 THEN 0 ELSE (10 * v(i - 1)) + DigitVal(z[i])
    IN v(Len(z))

IsOctet(z) ==
    /\ Len(z) \in 1..9
    /\ \A i \in 1..Len(z) : IsDigit(z[i])
    /\ Decimal(z) <= 255

\* seg0*2^24 + seg1*2^16 + seg2*2^8 + seg3 for the first four of segs,
\* a missing segment counting as 0.
Octet(segs, i) == IF i <= Len(segs) THEN Decimal(segs[i]) ELSE 0

RefQuad(segs) ==
    [hi |-> (Octet(segs, 1) * 256) + Octet(segs, 2),
     lo |-> (Octet(segs, 3) * 256) + Octet(segs, 4)]

\* C9: with four or more segments, the first four each an unsigned integer
\* in 0..255, inet_addr returns seg0*2^24 + seg1*2^16 + seg2*2^8 + seg3,
\* whatever the segments after the fourth are.
C9_FourOrMore ==
    (/\ parsed.kind # "idle"
     /\ Len(split(addr)) >= 4
     /\ \A i \in 1..4 : IsOctet(split(addr)[i]))
        => /\ parsed.kind = "ok"
           /\ parsed.val = RefQuad(split(addr))

\* C9's case: inet_addr has run on a text with a fifth segment that is no
\* number, after four octets the first of which has its top bit set.
C9_Witness ==
    /\ parsed.kind = "ok"
    /\ Len(split(addr)) >= 5
    /\ ~IsOctet(split(addr)[5])
    /\ parsed.val.hi >= 32768
    /\ parsed.val.lo # 0

\* C10: with k segments, 1 <= k < 4, each an unsigned integer in 0..255,
\* inet_addr succeeds and returns the value with the missing trailing
\* octets 0.
C10_FewerThanFour ==
    (/\ parsed.kind # "idle"
     /\ Len(split(addr)) < 4
     /\ \A i \in 1..Len(split(addr)) : IsOctet(split(addr)[i]))
        => /\ parsed.kind = "ok"
           /\ parsed.val = RefQuad(split(addr))

\* The 0-based index of the first segment among the first four that is no
\* unsigned integer in 0..255.
BadSegs(segs) == {i \in 0..(Min(4, Len(segs)) - 1) : ~IsOctet(segs[i + 1])}

FirstBad(segs) == CHOOSE i \in BadSegs(segs) : \A j \in BadSegs(segs) : i <= j

\* C11: when some segment among the first four is no unsigned integer in
\* 0..255, inet_addr returns a failure value that carries the 0-based index
\* of the first such segment.
C11_FailureIndex ==
    (/\ parsed.kind # "idle"
     /\ BadSegs(split(addr)) # {})
        => /\ parsed.kind = "err"
           /\ parsed.at = FirstBad(split(addr))

(***************************************************************************)
(* Properties of the handle lifecycle (Spec).                              *)
(***************************************************************************)
\* A handle owns its descriptor from its creation until close() is called
\* on it or it is dropped.
Owns(h) == Live(h) /\ ~Stale(h)

\* C1: a handle that has been destroyed had the OS close call issued for
\* its descriptor exactly once, explicit close() calls included.
C1_ReleasedOnce ==
    \A h \in Handles : hs[h].st = "dropped" => hs[h].closes = 1

\* C2: no close or drop through one handle releases a descriptor another
\* live handle owns: the descriptor of every owning handle is open, and no
\* two handles own the same descriptor.
C2_SoleOwner ==
    /\ \A h \in Handles : Owns(h) => IsOpen(os, hs[h].fd)
    /\ \A g, h \in Handles : (Owns(g) /\ Owns(h) /\ hs[g].fd = hs[h].fd) => g = h

\* The operations Closed forbids, and what counts as their failing: an Err,
\* a panic, a negative raw result of listen.  setblocking returns nothing,
\* so only its effect is looked at.
AfterCloseOps ==
    {"bind", "connect", "listen", "read", "write", "setblocking", "block", "nonblock"}
    \cup AcceptOps

IsError(l) ==
    \/ l.kind \in {"err", "panic"}
    \/ l.kind = "raw" /\ l.val < 0
    \/ l.op \in {"setblocking", "block", "nonblock"}

\* C3: once close() has been called on a handle, every later operation on
\* it is an error and changes no descriptor that is open in the OS.
C3_ClosedIsTerminal ==
    (last.stale /\ last.op \in AfterCloseOps) => (IsError(last) /\ ~last.effect)

\* C4: an accept that reports an error although the OS returned a new
\* descriptor has closed that descriptor, and every open descriptor is
\* owned by a live handle.
C4_NoLeak ==
    /\ (last.op \in AcceptOps /\ last.kind = "err" /\ last.ret >= 0) => ~IsOpen(os, last.ret)
    /\ \A d \in Fds : os[d].open => \E h \in Handles : Owns(h) /\ hs[h].fd = d

\* The byte size of the record each accept variant expects.
RecordSize(op) ==
    CASE op = "acceptinet" -> 16
      [] op = "acceptinet6" -> 28
      [] op = "acceptunix" -> 110

\* C5: when the length the OS left differs from the record's size, the
\* accept call returns Err carrying the raw OS return value, whatever its
\* sign, and creates no handle.
C5_LengthMismatchIsError ==
    (last.op \in AcceptOps /\ last.slen # RecordSize(last.op))
        => /\ last.kind = "err"
           /\ last.val = last.ret
           /\ ~last.made

\* C5's case: acceptunix on a listening descriptor, the OS returning a new
\* descriptor and the length of an unnamed peer's address.
C5_Witness ==
    /\ last.op = "acceptunix"
    /\ last.ret >= 0
    /\ last.slen = 2
    /\ last.kind = "err"

\* C12: every accept variant hands the OS a record of its size whose
\* family field is 2, 10 or 1 and whose other bytes are zero, and an initial
\* length word equal to that size (16, 28, 110).
RecordFamily(op) ==
    CASE op = "acceptinet" -> 2
      [] op = "acceptinet6" -> 10
      [] op = "acceptunix" -> 1

C12_AcceptArguments ==
    last.op \in AcceptOps
        => /\ Len(last.rec) = RecordSize(last.op)
           /\ HostU16(last.rec[1], last.rec[2]) = RecordFamily(last.op)
           /\ \A i \in 3..Len(last.rec) : last.rec[i] = 0
           /\ last.slen0 = RecordSize(last.op)

\* C13: every handle that exists holds a non-negative descriptor: new and
\* the accept variants make a handle only when the OS call returned a value
\* >= 0, new reports a negative value as Err carrying it, and a failed OS
\* accept leaves the length word as the caller set it and makes no handle.
C13_NonNegativeDescriptor ==
    /\ \A h \in Handles : Live(h) => hs[h].fd >= 0
    /\ (last.op \in AcceptOps \cup {"new"} /\ last.made) => last.ret >= 0
    /\ (last.op = "new" /\ last.ret < 0) => (last.kind = "err" /\ last.val = last.ret)
    /\ (last.op \in AcceptOps /\ last.ret < 0)
          => (last.slen = last.slen0 /\ last.kind = "err" /\ ~last.made)

\* C13's case: an accept through a handle that owns an open descriptor has
\* just failed in the OS, while a slot for a new handle was free.
C13_Witness ==
    /\ last.op \in AcceptOps
    /\ last.ret < 0
    /\ ~last.stale
    /\ HasFreeHandle
    /\ \E h \in Handles : Owns(h) /\ IsOpen(os, hs[h].fd)

\* C7: a descriptor that setblocking calls have reached has O_NONBLOCK set
\* exactly when the last call's argument was false, and every other bit of
\* its flag word as it was before the calls.
C7_BlockingBit ==
    \A d \in Fds :
        (os[d].open /\ os[d].blk # "none")
            => /\ CBit(os[d].flags, 11) = (IF os[d].blk = "nonblock" THEN 1 ELSE 0)
               /\ CAnd(os[d].flags, CNot(O_NONBLOCK)) = CAnd(os[d].f0, CNot(O_NONBLOCK))

\* C7's case: a setblocking(true) through a handle that owns its descriptor
\* has just cleared the bit an earlier setblocking(false) had set.
C7_Witness ==
    /\ last.op = "setblocking"
    /\ ~last.stale
    /\ last.effect
    /\ \E h \in Handles :
          /\ Owns(h)
          /\ IsOpen(os, hs[h].fd)
          /\ os[hs[h].fd].blk = "block"
          /\ CBit(os[hs[h].fd].flags, 11) = 0
          /\ os[hs[h].fd].flags = os[hs[h].fd].f0

=============================================================================
